---- MODULE Spec2Model ----
(***************************************************************************)
(* Job orchestration of the contract analyzer front end.                   *)
(*                                                                         *)
(* The repository ships two App components:                                *)
(*   - the pipeline client (components, App.startAnalysis): the browser    *)
(*     itself drives upload, five /analyze/section calls, /analyze/finalize*)
(*     and the raw bundle fetch, and cancels through abortRef;             *)
(*   - the polling client (ui/App.tsx, App.onUpload): the browser starts a *)
(*     server-side job and polls /analyze/status/<id>.                     *)
(* `app` records which of the two is mounted; it is chosen in Init and     *)
(* never changes.                                                          *)
(***************************************************************************)
EXTENDS Integers, Sequences, FiniteSets, TLC

\* ---------------------------------------------------------------- bounds
\* number of startAnalysis invocations in one page session (pipeline client)
MaxRuns == 2
\* number of onUpload invocations in one page session (polling client)
MaxUploads == 2
\* number of stages of a server-side job: the analytic stages, then finalize
\* (the polling client takes the count from the status payload)
SrvStages == 2
\* largest step / total_steps of a status payload handed to poll()
MaxPayloadStep == 9
MaxPayloadTotal == 9
\* nesting depth of the JSON values inside section texts
MaxDepth == 2
\* number of pieces of text outside the fences of a section text
MaxNoise == 2
\* number of items of an array to recover
MaxItems == 2
\* number of symbols following the object handed to the scanners
MaxTail == 2
\* number of tagged fences of a section text with several candidates
MaxFences == 3
\* number of questions submitted to the chat
MaxAsks == 2

\* ------------------------------------------------------------- constants
labels == <<"purpose", "commercial", "legal_risks", "mitigations", "alert">>
NumLabels == 5
PipelineTotal == 6
\* polling client: fallback for a missing total_steps
DefaultTotal == 7

Null == [null |-> TRUE]
Undefined == "undefined"
\* upJson.file_id of an upload response that carries no file_id
NoId == 0

Runs == 1..MaxRuns
Uploads == 1..MaxUploads
EmptyOutputs == [l \in {} |-> ""]

\* data.output of a successful section response (a missing output would be
\* stored as '', see OrEmpty)
SectionOutputs == {"text"}
\* finJson of a finalize response: raw_report_url / report_url present or not
FinJsons == [raw_report_url : BOOLEAN, report_url : BOOLEAN]
\* raw.json: either carries the section fields or lacks them
RawBundles == {"full", "empty"}

VARIABLES
    app,        \* "pipeline" or "polling": which App component is mounted
    file,       \* useState<File | null>
    loading,    \* useState(false)
    result,     \* useState<any>(null)
    job,        \* useState<JobState | null>
    abortRef,   \* useRef(false)                        (pipeline client)
    nruns,      \* number of startAnalysis / onUpload invocations so far
    runs,       \* one record per startAnalysis invocation (pipeline client)
    stopping,   \* useState(false)                      (polling client)
    cancelFor,  \* job id of the cancel request in flight, 0 if none
    pollers,    \* one record per onUpload invocation   (polling client)
    srv,        \* the server's job table               (polling client)
    storage,    \* localStorage: the job key and the result key
    clearing,   \* clearAll is suspended in its cleanup fetch (pipeline client)
    payload,    \* a status payload handed to poll()
    view,       \* what the progress card renders for the job
    fn,         \* the resolver function under evaluation
    parts,      \* the pieces the section text is composed of
    txt,        \* the section text handed to the resolver
    resolved,   \* what the resolver returned
    activeTab,      \* ResultsDisplay: useState('summary')
    showRawOutput,  \* ResultsDisplay: useState(false)
    question,   \* ChatInterface: useState('')
    messages,   \* ChatInterface: useState<ChatMessage[]>([])
    asks        \* one record per handleSubmit invocation

pipelineVars == <<abortRef, runs>>
pollingVars == <<stopping, cancelFor, pollers, srv>>
payloadVars == <<payload, view>>
resolverVars == <<fn, parts, txt, resolved>>
displayVars == <<activeTab, showRawOutput>>
chatVars == <<question, messages, asks>>
pureVars == <<payloadVars, resolverVars, displayVars, chatVars>>
vars == <<app, file, loading, result, job, nruns, pipelineVars, pollingVars,
          storage, clearing, pureVars>>

\* An activation of startAnalysis: where it is suspended (pc), the loop
\* index i, the locals `fileId` (-1 before it is assigned) and `outputs`, the
\* finalize response, the error its catch block received, and the history of
\* what it issued and wrote.
IdleRun == [pc |-> "idle", i |-> 0, fileId |-> -1, outputs |-> EmptyOutputs,
            fin |-> Null, err |-> "none",
            calls |-> <<>>, written |-> <<>>, cancelAt |-> -1]

\* outputs[label] = data.output || ''
OrEmpty(v) == IF v = Undefined THEN "" ELSE v

\* raw?.<l> ?? outputs[<l>] ?? ''
ResultField(raw, outputs, l) ==
    IF raw = "full" THEN "raw_" \o l
    ELSE IF l \in DOMAIN outputs THEN outputs[l] ELSE ""

\* the object passed to setResult
MakeResult(p, fin, raw, outputs) ==
    [ id             |-> p,
      report_url     |-> IF fin.report_url THEN "report" ELSE Undefined,
      raw_report_url |-> "raw_report",
      purpose        |-> ResultField(raw, outputs, "purpose"),
      commercial     |-> ResultField(raw, outputs, "commercial"),
      legal_risks    |-> ResultField(raw, outputs, "legal_risks"),
      mitigations    |-> ResultField(raw, outputs, "mitigations"),
      alert          |-> ResultField(raw, outputs, "alert"),
      plain          |-> IF raw = "full" THEN "raw_plain" ELSE "" ]

\* variant: the running snapshot lags one step behind (step: i for i + 1)
RunningJobOffByOne(p, step) ==
    [id |-> p, status |-> "running",
     step |-> IF step > 0 THEN step - 1 ELSE 0, total |-> PipelineTotal]

\* setJob({ id: fileId, status: 'running', step: i + 1, total: 6, label })
RunningJob(p, step) ==
    [id |-> p, status |-> "running", step |-> step, total |-> PipelineTotal]

\* variant: the done snapshot is written without its step
DoneJobStepReset(p) ==
    [id |-> p, status |-> "done", step |-> 0, total |-> PipelineTotal]

\* setJob({ id: fileId, status: 'done', step: 6, total: 6 })
DoneJob(p) ==
    [id |-> p, status |-> "done", step |-> 6, total |-> PipelineTotal]

\* variant: the loop bound is one short (i < labels.length - 1)
NextCallSkipsLast(i) == IF i < NumLabels - 1 THEN labels[i + 1] ELSE "finalize"

\* the call the stage loop issues once i stages have returned: labels[i]
\* while i < labels.length, the finalize call after the loop
NextCall(i) == IF i < NumLabels THEN labels[i + 1] ELSE "finalize"

\* variant: the abort flag is toggled instead of set
CancelToggle(s) == <<~s[1], FALSE, Null>>

\* handleCancelJob on <<abortRef.current, loading, job>>
CancelEffect(s) == <<TRUE, FALSE, Null>>

\* An activation of onUpload: where it is suspended, whether it is still
\* inside `await poll()` (the first poll), and how its poll loop ended.
IdlePoller == [pc |-> "idle", first |-> FALSE, end |-> "none"]

\* A slot of the server's job table before the job is created.
NoSrvJob == [status |-> "none", step |-> 0, cancel |-> FALSE]
\* A job nobody polls any more is dropped from the table.
Evicted == [status |-> "evicted", step |-> 0, cancel |-> FALSE]

\* the fields a snapshot can hold as undefined: message (ui/App.tsx:111),
\* report_url (finJson?.report_url)
OptionalKeys == {"message", "report_url"}

\* JSON.stringify of an object: a property whose value is undefined is omitted
JSONStringify(v) ==
    [k \in {x \in DOMAIN v : ~(x \in OptionalKeys /\ v[x] = Undefined)} |-> v[k]]

\* JSON.parse of a text produced by JSON.stringify
JSONParse(t) == t

\* what a persist effect leaves under its key for state value v:
\* v ? setItem(key, JSON.stringify(v)) : removeItem(key)
Stored(v) == IF v = Null THEN Null ELSE JSONStringify(v)

\* variant: the restore effect is missing
RestoredNothing(item) == Null

\* what the restore effect sets from the item read under a key:
\* if (saved) set(JSON.parse(saved))   (the state starts as null)
Restored(item) == IF item = Null THEN Null ELSE JSONParse(item)

\* the two persist effects, run after a render in which job / result changed
Persist ==
    storage' = [job    |-> IF job' = job THEN storage.job ELSE Stored(job'),
                result |-> IF result' = result THEN storage.result
                                               ELSE Stored(result')]

\* nothing under either key
EmptyStorage == [job |-> Null, result |-> Null]

\* no section text is being resolved
NoResolver ==
    /\ fn = "none"
    /\ parts = Null
    /\ txt = <<>>
    /\ resolved = Null

\* the state of a freshly constructed component on a first visit
Mounted ==
    /\ file = Null
    /\ loading = FALSE
    /\ result = Null
    /\ job = Null
    /\ abortRef = FALSE
    /\ nruns = 0
    /\ runs = [p \in Runs |-> IdleRun]
    /\ stopping = FALSE
    /\ cancelFor = 0
    /\ pollers = [p \in Uploads |-> IdlePoller]
    /\ srv = [p \in Uploads |-> NoSrvJob]
    /\ storage = EmptyStorage
    /\ clearing = FALSE
    /\ activeTab = "summary"
    /\ showRawOutput = FALSE
    /\ question = <<>>
    /\ messages = <<>>
    /\ asks = <<>>

Init ==
    /\ app \in {"pipeline", "polling"}
    /\ payload = Null
    /\ view = Null
    /\ NoResolver
    /\ Mounted

\* FileUpload is rendered only while there is no result
handleFileSelect(f) ==
    /\ app = "pipeline"
    /\ result = Null
    /\ file' = f
    /\ UNCHANGED <<app, clearing, pureVars, loading, result, job, nruns, pipelineVars, pollingVars>>
    /\ Persist

\* An activation that ended in its catch block: its locals are dead, only the
\* error it caught is remembered.
CaughtRun(cause) == [IdleRun EXCEPT !.pc = "caught", !.err = cause]

\* variant: the error is swallowed and the analysis goes on to finalize
CaughtContinue(p, cause) ==
    /\ UNCHANGED loading
    /\ runs' = [runs EXCEPT ![p].pc = "finalize",
                            ![p].err = cause,
                            ![p].calls = Append(@, "finalize")]

\* catch (error) { setLoading(false); alert(...) }
Caught(p, cause) ==
    /\ loading' = FALSE
    /\ runs' = [runs EXCEPT ![p] = CaughtRun(cause)]

\* variant: the output of the stage that returned is not recorded
ProceedDropsOutput(p, i, outs, newJob) ==
    IF i < NumLabels /\ abortRef
    THEN Caught(p, "Cancelled")
    ELSE /\ runs' = [runs EXCEPT
                       ![p].pc = IF i < NumLabels THEN "section" ELSE "finalize",
                       ![p].i = i,
                       ![p].fileId = newJob.id,
                       ![p].calls = Append(@, NextCall(i)),
                       ![p].written = Append(@, newJob.step)]
         /\ UNCHANGED loading

\* top of a loop iteration, or the finalize call after the loop, once the
\* activation has written newJob: if (abortRef.current) throw ...; fetch(...)
Proceed(p, i, outs, newJob) ==
    IF i < NumLabels /\ abortRef
    THEN Caught(p, "Cancelled")
    ELSE /\ runs' = [runs EXCEPT
                       ![p].pc = IF i < NumLabels THEN "section" ELSE "finalize",
                       ![p].i = i,
                       ![p].fileId = newJob.id,
                       ![p].outputs = outs,
                       ![p].calls = Append(@, NextCall(i)),
                       ![p].written = Append(@, newJob.step)]
         /\ UNCHANGED loading

\* startAnalysis up to its first await (the upload fetch)
startAnalysis ==
    /\ app = "pipeline"
    /\ result = Null          \* FileUpload rendered
    /\ file # Null            \* Analyze button rendered / if (!file) return
    /\ ~loading               \* disabled={isLoading}
    /\ nruns < MaxRuns
    /\ loading' = TRUE
    /\ abortRef' = FALSE
    /\ result' = Null
    /\ nruns' = nruns + 1
    /\ runs' = [runs EXCEPT ![nruns + 1].pc = "upload"]
    /\ UNCHANGED <<app, clearing, pureVars, file, job, pollingVars>>
    /\ Persist

\* the upload fetch settles; on an OK response the job is created with
\* upJson.file_id (not tested for presence) and the loop reaches its first
\* iteration
UploadReturn(p, ok, hasId) ==
    /\ app = "pipeline"
    /\ runs[p].pc = "upload"
    /\ LET fileId == IF hasId THEN p ELSE NoId
       IN IF ~ok
          THEN /\ Caught(p, "Upload failed")
               /\ UNCHANGED job
          ELSE /\ job' = RunningJob(fileId, 0)
               /\ Proceed(p, 0, EmptyOutputs, RunningJob(fileId, 0))
    /\ UNCHANGED <<app, clearing, pureVars, file, result, abortRef, nruns, pollingVars>>
    /\ Persist

\* the /analyze/section call of iteration i settles
SectionReturn(p, ok, out) ==
    /\ app = "pipeline"
    /\ runs[p].pc = "section"
    /\ LET i == runs[p].i
           label == labels[i + 1]
           outs == (label :> OrEmpty(out)) @@ runs[p].outputs
           newJob == RunningJob(runs[p].fileId, i + 1) @@ [label |-> label]
       IN IF ~ok
          THEN /\ Caught(p, "Section failed")
               /\ UNCHANGED job
          ELSE /\ job' = newJob
               /\ Proceed(p, i + 1, outs, newJob)
    /\ UNCHANGED <<app, clearing, pureVars, file, result, abortRef, nruns, pollingVars>>
    /\ Persist

\* the /analyze/finalize call settles
FinalizeReturn(p, ok, finJson) ==
    /\ app = "pipeline"
    /\ runs[p].pc = "finalize"
    /\ IF ~ok
       THEN Caught(p, "Finalize failed")
       ELSE IF ~finJson.raw_report_url
       THEN Caught(p, "No raw_report_url")
       ELSE /\ runs' = [runs EXCEPT ![p].pc = "raw",
                                    ![p].fin = finJson,
                                    ![p].calls = Append(@, "raw")]
            /\ UNCHANGED loading
    /\ UNCHANGED <<app, clearing, pureVars, file, result, job, abortRef, nruns, pollingVars>>
    /\ Persist

\* the raw bundle fetch settles
RawReturn(p, ok, raw) ==
    /\ app = "pipeline"
    /\ runs[p].pc = "raw"
    /\ IF ~ok
       THEN /\ Caught(p, "raw.json fetch failed")
            /\ UNCHANGED <<result, job>>
       ELSE /\ result' = MakeResult(p, runs[p].fin, raw, runs[p].outputs)
            /\ job' = DoneJob(runs[p].fileId)
            /\ loading' = FALSE
            /\ runs' = [runs EXCEPT ![p].pc = "done",
                                    ![p].written = Append(@, DoneJob(p).step)]
    /\ UNCHANGED <<app, clearing, pureVars, file, abortRef, nruns, pollingVars>>
    /\ Persist

\* ProgressTracker (and its Cancel button) is rendered iff
\* job && job.status !== 'done'
CancelShown == job # Null /\ job.status # "done"

\* Cancel clicked; cancelAt remembers, for the activation whose job is shown
\* and whose section call is in flight, how many calls it had issued
handleCancelJob ==
    /\ app = "pipeline"
    /\ CancelShown
    /\ LET s == CancelEffect(<<abortRef, loading, job>>)
       IN /\ abortRef' = s[1]
          /\ loading' = s[2]
          /\ job' = s[3]
    /\ runs' = [p \in Runs |->
                   IF job.id = runs[p].fileId /\ runs[p].pc = "section"
                      /\ runs[p].cancelAt = -1
                   THEN [runs[p] EXCEPT !.cancelAt = Len(runs[p].calls)]
                   ELSE runs[p]]
    /\ UNCHANGED <<app, clearing, pureVars, file, result, nruns, pollingVars>>
    /\ Persist

(***************************************************************************)
(* Polling client (ui/App.tsx) and the server-side job it observes.        *)
(***************************************************************************)

\* v || d  (0 stands for a missing or zero number, both falsy)
OrDefault(v, d) == IF v = 0 THEN d ELSE v

Min(a, b) == IF a < b THEN a ELSE b

\* partials of a server job: one entry per completed analytic stage
PartialsAt(step) ==
    [l \in {labels[k] : k \in 1..Min(step, Min(SrvStages - 1, NumLabels))} |-> "text"]

\* the body of a /analyze/status/<id> response for server job p
StatusBody(p, withResult) ==
    [ status      |-> srv[p].status,
      step        |-> srv[p].step,
      total_steps |-> SrvStages,
      message     |-> IF srv[p].status = "error" THEN "stage failed" ELSE Undefined,
      partials    |-> PartialsAt(srv[p].step),
      result      |-> IF srv[p].status = "done" /\ withResult
                      THEN [id |-> p, report_url |-> "report"]
                      ELSE Null ]

\* the object poll() passes to setJob
PolledJob(p, sdata) ==
    [ id       |-> p,
      status   |-> sdata.status,
      step     |-> OrDefault(sdata.step, 0),
      total    |-> OrDefault(sdata.total_steps, DefaultTotal),
      message  |-> sdata.message,
      partials |-> sdata.partials ]

\* The server's progress on job p can be observed only through a status or
\* a cancel request for p; its steps are taken while such a request is in
\* flight (a step taken earlier is indistinguishable from one taken then).
Observed(p) == pollers[p].pc = "poll" \/ cancelFor = p

\* pending -> running: the server launches the job
SrvLaunch(p) ==
    /\ app = "polling"
    /\ Observed(p)
    /\ srv[p].status = "pending"
    /\ srv' = [srv EXCEPT ![p].status = "running"]
    /\ UNCHANGED <<app, clearing, pureVars, file, loading, result, job, nruns, pipelineVars,
                   stopping, cancelFor, pollers>>
    /\ Persist

\* the stage in flight on the server completes
SrvStage(p, ok) ==
    /\ app = "polling"
    /\ Observed(p)
    /\ srv[p].status = "running"
    /\ srv' = [srv EXCEPT ![p] =
                 IF ~ok THEN [@ EXCEPT !.status = "error"]
                 ELSE IF @.step + 1 = SrvStages
                      THEN [@ EXCEPT !.status = "done", !.step = @ + 1]
                 ELSE IF @.cancel
                      THEN [@ EXCEPT !.status = "cancelled", !.step = @ + 1]
                 ELSE [@ EXCEPT !.step = @ + 1]]
    /\ UNCHANGED <<app, clearing, pureVars, file, loading, result, job, nruns, pipelineVars,
                   stopping, cancelFor, pollers>>
    /\ Persist

\* the server's handling of a cancel request
SrvCancel(j) ==
    IF j.status \in {"pending", "running"} THEN [j EXCEPT !.cancel = TRUE] ELSE j

\* onUpload up to its first await (the /analyze/start fetch)
onUpload ==
    /\ app = "polling"
    /\ file # Null /\ ~loading            \* canAnalyze
    /\ nruns < MaxUploads
    /\ loading' = TRUE
    /\ result' = Null
    /\ nruns' = nruns + 1
    /\ pollers' = [pollers EXCEPT ![nruns + 1].pc = "start"]
    /\ UNCHANGED <<app, clearing, pureVars, file, job, pipelineVars, stopping, cancelFor, srv>>
    /\ Persist

\* the file input of the polling client
onFileChange(f) ==
    /\ app = "polling"
    /\ file' = f
    /\ UNCHANGED <<app, clearing, pureVars, loading, result, job, nruns, pipelineVars, pollingVars>>
    /\ Persist

\* a poll loop ends (return or throw); the first poll runs inside
\* `await poll()`, so its end reaches finally { setLoading(false) }
EndPoll(p, how) ==
    /\ pollers' = [pollers EXCEPT ![p] = [pc |-> "ended", first |-> FALSE, end |-> how]]
    /\ loading' = IF pollers[p].first THEN FALSE ELSE loading
    /\ srv' = [srv EXCEPT ![p] = Evicted]

\* the /analyze/start fetch settles:
\* if (!start.ok || !startData.job_id) throw ...
StartReturn(p, ok, hasId) ==
    /\ app = "polling"
    /\ pollers[p].pc = "start"
    /\ IF ~ok \/ ~hasId
       THEN /\ pollers' = [pollers EXCEPT ![p] =
                             [pc |-> "ended", first |-> FALSE, end |-> "start failed"]]
            /\ loading' = FALSE
            /\ UNCHANGED <<job, srv>>
       ELSE /\ srv' = [srv EXCEPT ![p] = [NoSrvJob EXCEPT !.status = "pending"]]
            /\ job' = [id |-> p, status |-> "pending", step |-> 0, total |-> DefaultTotal]
            /\ pollers' = [pollers EXCEPT ![p] = [pc |-> "poll", first |-> TRUE, end |-> "none"]]
            /\ UNCHANGED loading
    /\ UNCHANGED <<app, clearing, pureVars, file, result, nruns, pipelineVars, stopping, cancelFor>>
    /\ Persist

\* the /analyze/status fetch of poll() settles
PollReturn(p, ok, withResult) ==
    /\ app = "polling"
    /\ pollers[p].pc = "poll"
    /\ IF ~ok
       THEN /\ EndPoll(p, "poll failed")
            /\ UNCHANGED <<job, result>>
       ELSE LET sdata == StatusBody(p, withResult)
            IN /\ job' = PolledJob(p, sdata)
               /\ IF sdata.status = "done" /\ sdata.result # Null
                  THEN /\ result' = sdata.result
                       /\ EndPoll(p, "done")
                  ELSE IF sdata.status = "cancelled"
                  THEN /\ EndPoll(p, "cancelled")
                       /\ UNCHANGED result
                  ELSE IF sdata.status = "error"
                  THEN /\ EndPoll(p, "error")
                       /\ UNCHANGED result
                  ELSE /\ pollers' = [pollers EXCEPT ![p].pc = "timer", ![p].first = FALSE]
                       /\ loading' = IF pollers[p].first THEN FALSE ELSE loading
                       /\ UNCHANGED <<result, srv>>
    /\ UNCHANGED <<app, clearing, pureVars, file, nruns, pipelineVars, stopping, cancelFor>>
    /\ Persist

\* setTimeout(poll, 1500) fires: the next status fetch is issued
TimerFires(p) ==
    /\ app = "polling"
    /\ pollers[p].pc = "timer"
    /\ pollers' = [pollers EXCEPT ![p].pc = "poll"]
    /\ UNCHANGED <<app, clearing, pureVars, file, loading, result, job, nruns, pipelineVars,
                   stopping, cancelFor, srv>>
    /\ Persist

\* the Stop button is rendered iff the job is pending or running
StopShown == job # Null /\ job.status \in {"pending", "running"}

\* onClick of Stop up to its await (the /analyze/cancel fetch)
StopClick ==
    /\ app = "polling"
    /\ StopShown
    /\ ~stopping                          \* disabled={stopping}
    /\ stopping' = TRUE
    /\ cancelFor' = job.id
    /\ UNCHANGED <<app, clearing, pureVars, file, loading, result, job, nruns, pipelineVars, pollers, srv>>
    /\ Persist

\* the /analyze/cancel fetch settles
StopReturn(ok) ==
    /\ app = "polling"
    /\ cancelFor # 0
    /\ srv' = IF ok THEN [srv EXCEPT ![cancelFor] = SrvCancel(@)] ELSE srv
    /\ stopping' = FALSE
    /\ cancelFor' = 0
    /\ UNCHANGED <<app, clearing, pureVars, file, loading, result, job, nruns, pipelineVars, pollers>>
    /\ Persist

(***************************************************************************)
(* Page reload and clearAll.                                               *)
(***************************************************************************)

\* The page is loaded again on top of `items` (the content of localStorage):
\* every activation of the old page is gone with its timers and pending
\* fetches, the component is constructed anew (useState / useRef initial
\* values), the restore effect reads both keys, and the persist effects run
\* for the initial and then for the restored state. Nobody observes the jobs
\* of the old page any more. Activations are counted, and job ids are
\* distinct, per page load.
Remount(items) ==
    /\ file' = Null
    /\ loading' = FALSE
    /\ abortRef' = FALSE
    /\ stopping' = FALSE
    /\ cancelFor' = 0
    /\ clearing' = FALSE
    /\ nruns' = 0
    /\ runs' = [p \in Runs |-> IdleRun]
    /\ pollers' = [p \in Uploads |-> IdlePoller]
    /\ srv' = [p \in Uploads |-> NoSrvJob]
    /\ job' = Restored(items.job)
    /\ result' = Restored(items.result)
    /\ storage' = [job |-> Stored(job'), result |-> Stored(result')]
    /\ UNCHANGED <<app, pureVars>>

\* the user reloads the page
Reload == Remount(storage)

\* clearAll after its cleanup fetch settled or was skipped: the setters, the
\* two removeItem calls, window.location.reload()
ClearFinish == Remount(EmptyStorage)

\* the Clear button of the header: clearAll up to its await; without a job
\* id there is no await and clearAll runs to its end
clearAll ==
    /\ app = "pipeline"
    /\ IF job # Null /\ job.id # NoId
       THEN /\ abortRef' = TRUE
            /\ clearing' = TRUE
            /\ UNCHANGED <<app, file, loading, result, job, nruns, runs,
                           pollingVars, storage, pureVars>>
       ELSE ClearFinish

\* the /upload/clear fetch settles; its failure is swallowed
ClearReturn(ok) ==
    /\ app = "pipeline"
    /\ clearing
    /\ ClearFinish

Files == {[name |-> "contract.pdf"]}

NextPipeline ==
    \/ \E f \in Files : handleFileSelect(f)
    \/ startAnalysis
    \/ \E p \in Runs, ok \in BOOLEAN : UploadReturn(p, ok, TRUE)
    \/ \E p \in Runs, ok \in BOOLEAN, out \in SectionOutputs : SectionReturn(p, ok, out)
    \/ \E p \in Runs, ok \in BOOLEAN, fj \in FinJsons : FinalizeReturn(p, ok, fj)
    \/ \E p \in Runs, ok \in BOOLEAN, raw \in RawBundles : RawReturn(p, ok, raw)
    \/ handleCancelJob

NextPolling ==
    \/ \E f \in Files : onFileChange(f)
    \/ onUpload
    \/ \E p \in Uploads, ok \in BOOLEAN, hasId \in BOOLEAN : StartReturn(p, ok, hasId)
    \/ \E p \in Uploads, ok \in BOOLEAN, wr \in BOOLEAN : PollReturn(p, ok, wr)
    \/ \E p \in Uploads : TimerFires(p)
    \/ StopClick
    \/ \E ok \in BOOLEAN : StopReturn(ok)
    \/ \E p \in Uploads : SrvLaunch(p)
    \/ \E p \in Uploads, ok \in BOOLEAN : SrvStage(p, ok)

Next == NextPipeline \/ NextPolling

\* either client
Spec == Init /\ [][Next]_vars

\* the pipeline client alone
InitPipeline == Init /\ app = "pipeline"
SpecPipeline == InitPipeline /\ [][NextPipeline]_vars

\* an OK upload response whose body carries no file_id
UploadNoId == \E p \in Runs : UploadReturn(p, TRUE, FALSE)

\* either client, the server's responses not necessarily well-formed
NextSubmit ==
    \/ Next
    \/ UploadNoId

SpecSubmit == Init /\ [][NextSubmit]_vars

\* either client across page loads, with the header's Clear button
NextSession ==
    \/ Next
    \/ Reload
    \/ clearAll
    \/ \E ok \in BOOLEAN : ClearReturn(ok)

SpecSession == Init /\ [][NextSession]_vars

(***************************************************************************)
(* poll() and the progress card of the polling client on an arbitrary      *)
(* status payload.                                                         *)
(***************************************************************************)

Max(a, b) == IF a > b THEN a ELSE b

\* status payloads; 0 stands for a missing or zero step / total_steps
Payloads ==
    [ status      : {"running"},
      step        : 0..MaxPayloadStep,
      total_steps : 0..MaxPayloadTotal,
      message     : {Undefined},
      partials    : {EmptyOutputs},
      result      : {Null} ]

\* the progress card: Step {Math.min(job.step, job.total)} / {job.total} and
\* the width of the bar in percent (rounded down)
Render(j) ==
    [ step  |-> Min(j.step, j.total),
      total |-> j.total,
      width |-> IF j.total > 0
                THEN (Max(0, Min(j.step, j.total)) * 100) \div j.total
                ELSE 0 ]

\* poll() from the decoded body to setJob, and the render that follows
ReceiveStatus ==
    /\ app = "polling"
    /\ payload # Null
    /\ view = Null
    /\ job' = PolledJob(1, payload)
    /\ view' = Render(job')
    /\ UNCHANGED <<app, clearing, payload, resolverVars, displayVars, chatVars,
                   file, loading, result, nruns, pipelineVars, pollingVars>>
    /\ Persist

InitPayload ==
    /\ app = "polling"
    /\ payload \in Payloads
    /\ view = Null
    /\ NoResolver
    /\ Mounted

NextPayload == ReceiveStatus

SpecPayload == InitPayload /\ [][NextPayload]_vars

(***************************************************************************)
(* Structured value resolver (components/ResultsDisplay.tsx).              *)
(*                                                                         *)
(* A text is a sequence of symbols. A symbol is one character, except that *)
(* three backticks followed by json (the opening fence) and three bare     *)
(* backticks are one symbol each. A parsed JSON value is represented by    *)
(* its text without insignificant white space (what JSON.stringify would   *)
(* print for it).                                                          *)
(***************************************************************************)

FenceOpen == "<fence json>"
FenceMark == "<fence>"
Quote == "\""
Backslash == "\\"

\* \s
IsWs(c) == c = " "

RECURSIVE TrimLeft(_)
TrimLeft(s) == IF s # <<>> /\ IsWs(Head(s)) THEN TrimLeft(Tail(s)) ELSE s

RECURSIVE TrimRight(_)
TrimRight(s) ==
    IF s # <<>> /\ IsWs(s[Len(s)]) THEN TrimRight(SubSeq(s, 1, Len(s) - 1)) ELSE s

\* String.prototype.trim
Trim(s) == TrimRight(TrimLeft(s))

\* index of the first symbol of s at or after i that is in set, 0 if none
RECURSIVE IndexFrom(_, _, _)
IndexFrom(s, set, i) ==
    IF i > Len(s) THEN 0
    ELSE IF s[i] \in set THEN i
    ELSE IndexFrom(s, set, i + 1)

\* the regex.exec loop of getAllJsonFences from lastIndex i: the body runs
\* lazily to the next three backticks, which may be those of a further
\* opening fence; that occurrence is consumed as the closing fence
RECURSIVE FencesFrom(_, _)
FencesFrom(raw, i) ==
    LET o == IndexFrom(raw, {FenceOpen}, i)
    IN IF o = 0 THEN <<>>
       ELSE LET c == IndexFrom(raw, {FenceMark, FenceOpen}, o + 1)
            IN IF c = 0 THEN <<>>
               ELSE LET body == Trim(SubSeq(raw, o + 1, c - 1))
                        rest == FencesFrom(raw, c + 1)
                    IN IF body # <<>> THEN <<body>> \o rest ELSE rest

\* a txt that is undefined, and a txt that is not a string
NoText == <<"<undefined>">>
NonString == <<"<non-string>">>

\* txt.trim() of a value that has no trim method throws; the exception
\* leaves getAllJsonFences and its caller
TypeError == << <<"<TypeError>">> >>

\* variant: the guard is missing
IsTextUnguarded(t) == TRUE

\* the negation of !txt || typeof txt !== 'string'
IsText(t) == t \notin {<<>>, NoText, NonString}

\* variant: a greedy body, from the first opening fence to the last fence
getAllJsonFencesGreedy(t) ==
    LET raw == Trim(t)
        o == IndexFrom(raw, {FenceOpen}, 1)
        marks == {k \in 1..Len(raw) : raw[k] \in {FenceMark, FenceOpen}}
        c == IF marks = {} THEN 0 ELSE CHOOSE k \in marks : \A m \in marks : m <= k
        body == Trim(SubSeq(raw, o + 1, c - 1))
    IN IF o = 0 \/ c <= o \/ body = <<>> THEN <<>> ELSE <<body>>

getAllJsonFences(t) ==
    IF ~IsText(t) THEN <<>>
    ELSE IF t \in {NoText, NonString} THEN TypeError
    ELSE FencesFrom(Trim(t), 1)

\* string | null of the scanners
NotFound == [ok |-> FALSE, text |-> <<>>]
Found(t) == [ok |-> TRUE, text |-> t]

\* variant: an escaped quote ends the string
EndsStringIgnoringEscape(escape, ch) == ch = Quote

\* inside a string: does ch end it?  (escape: the previous symbol was an
\* unescaped backslash)
EndsString(escape, ch) == ~escape /\ ch = Quote

\* inside a string: is the symbol after ch escaped?
StartsEscape(escape, ch) == ~escape /\ ch = Backslash

\* the for loop of extractFirstBalanced from index i
RECURSIVE ScanFirst(_, _, _, _, _, _, _, _, _)
ScanFirst(s, openCh, closeCh, i, started, startIdx, depth, inStr, escape) ==
    IF i > Len(s) THEN NotFound
    ELSE LET ch == s[i]
         IN IF inStr
            THEN ScanFirst(s, openCh, closeCh, i + 1, started, startIdx, depth,
                           ~EndsString(escape, ch), StartsEscape(escape, ch))
            ELSE IF ch = Quote
            THEN ScanFirst(s, openCh, closeCh, i + 1, started, startIdx, depth,
                           TRUE, FALSE)
            ELSE IF ~started
            THEN IF ch = openCh
                 THEN ScanFirst(s, openCh, closeCh, i + 1, TRUE, i, 1, FALSE, FALSE)
                 ELSE ScanFirst(s, openCh, closeCh, i + 1, FALSE, startIdx, depth,
                                FALSE, FALSE)
            ELSE LET d == IF ch = openCh THEN depth + 1
                          ELSE IF ch = closeCh THEN depth - 1
                          ELSE depth
                 IN IF d = 0 THEN Found(SubSeq(s, startIdx, i))
                    ELSE ScanFirst(s, openCh, closeCh, i + 1, TRUE, startIdx, d,
                                   FALSE, FALSE)

extractFirstBalanced(s, openCh, closeCh) ==
    ScanFirst(s, openCh, closeCh, 1, FALSE, 0, 0, FALSE, FALSE)

\* prefer the first balanced array, then the first balanced object
sliceToFirstJSON(s) ==
    LET arr == extractFirstBalanced(s, "[", "]")
        obj == extractFirstBalanced(s, "{", "}")
    IN IF arr.ok THEN arr.text
       ELSE IF obj.ok THEN obj.text
       ELSE s

\* ------------------------------------------------------------ JSON.parse
\* The JSON grammar over the symbols: objects, arrays, strings (escapes \"
\* and \\), numbers written with the digit 1, white space " ".

JSONEscapes == {Quote, Backslash}

RECURSIVE SkipWs(_, _)
SkipWs(s, i) == IF i <= Len(s) /\ IsWs(s[i]) THEN SkipWs(s, i + 1) ELSE i

\* the rest of a string literal whose opening quote precedes j: the index
\* after its closing quote, 0 if it is not a string
RECURSIVE PStrBody(_, _)
PStrBody(s, j) ==
    IF j > Len(s) THEN 0
    ELSE IF s[j] = Quote THEN j + 1
    ELSE IF s[j] = Backslash
    THEN IF j + 1 <= Len(s) /\ s[j + 1] \in JSONEscapes
         THEN PStrBody(s, j + 2) ELSE 0
    ELSE PStrBody(s, j + 1)

RECURSIVE PDigits(_, _)
PDigits(s, j) == IF j <= Len(s) /\ s[j] = "1" THEN PDigits(s, j + 1) ELSE j

\* a value / the members of an object / the elements of an array starting at
\* i: the index after it, 0 if there is none
RECURSIVE PValue(_, _)
RECURSIVE PMembers(_, _)
RECURSIVE PElements(_, _)

PValue(s, i0) ==
    LET i == SkipWs(s, i0)
    IN IF i > Len(s) THEN 0
       ELSE IF s[i] = "{"
       THEN LET j == SkipWs(s, i + 1)
            IN IF j <= Len(s) /\ s[j] = "}" THEN j + 1 ELSE PMembers(s, j)
       ELSE IF s[i] = "["
       THEN LET j == SkipWs(s, i + 1)
            IN IF j <= Len(s) /\ s[j] = "]" THEN j + 1 ELSE PElements(s, j)
       ELSE IF s[i] = Quote THEN PStrBody(s, i + 1)
       ELSE IF s[i] = "1" THEN PDigits(s, i + 1)
       ELSE 0

PMembers(s, i) ==
    IF i > Len(s) \/ s[i] # Quote THEN 0
    ELSE LET k == PStrBody(s, i + 1)
             c == SkipWs(s, k)
         IN IF k = 0 \/ c > Len(s) \/ s[c] # ":" THEN 0
            ELSE LET v == PValue(s, c + 1)
                     e == SkipWs(s, v)
                 IN IF v = 0 \/ e > Len(s) THEN 0
                    ELSE IF s[e] = "}" THEN e + 1
                    ELSE IF s[e] = "," THEN PMembers(s, SkipWs(s, e + 1))
                    ELSE 0

PElements(s, i) ==
    LET v == PValue(s, i)
        e == SkipWs(s, v)
    IN IF v = 0 \/ e > Len(s) THEN 0
       ELSE IF s[e] = "]" THEN e + 1
       ELSE IF s[e] = "," THEN PElements(s, e + 1)
       ELSE 0

\* s without the white space outside its string literals
RECURSIVE Canon(_, _, _, _)
Canon(s, i, inStr, escape) ==
    IF i > Len(s) THEN <<>>
    ELSE LET ch == s[i]
         IN IF inStr
            THEN <<ch>> \o Canon(s, i + 1, escape \/ ch # Quote,
                                 ~escape /\ ch = Backslash)
            ELSE IF IsWs(ch) THEN Canon(s, i + 1, FALSE, FALSE)
            ELSE <<ch>> \o Canon(s, i + 1, ch = Quote, FALSE)

Stringified(s) == Canon(s, 1, FALSE, FALSE)

KindOf(c) == IF c = "{" THEN "object"
             ELSE IF c = "[" THEN "array"
             ELSE IF c = Quote THEN "string"
             ELSE "number"

\* JSON.parse threw
SyntaxError == [ok |-> FALSE, kind |-> "none", json |-> <<>>]

\* JSON.parse(s) of a text
JSONParseText(s) ==
    LET e == PValue(s, 1)
    IN IF e = 0 \/ SkipWs(s, e) # Len(s) + 1 THEN SyntaxError
       ELSE [ok |-> TRUE, kind |-> KindOf(s[SkipWs(s, 1)]), json |-> Stringified(s)]

\* Array.isArray(parsed)
IsArray(parsed) == parsed.ok /\ parsed.kind = "array"
\* parsed && typeof parsed === 'object' && !Array.isArray(parsed)
IsPlainObject(parsed) == parsed.ok /\ parsed.kind = "object"

\* the for loop of extractAllBalancedObjects from index i; start = 0 stands
\* for start === -1, acc holds the texts of the objects pushed so far
RECURSIVE ScanAll(_, _, _, _, _, _, _)
ScanAll(s, i, inStr, escape, depth, start, acc) ==
    IF i > Len(s) THEN acc
    ELSE LET ch == s[i]
         IN IF inStr
            THEN ScanAll(s, i + 1, ~EndsString(escape, ch), StartsEscape(escape, ch),
                         depth, start, acc)
            ELSE IF ch = Quote
            THEN ScanAll(s, i + 1, TRUE, FALSE, depth, start, acc)
            ELSE IF ch = "{"
            THEN ScanAll(s, i + 1, FALSE, FALSE, depth + 1,
                         IF depth = 0 THEN i ELSE start, acc)
            ELSE IF ch = "}"
            THEN LET d == IF depth > 0 THEN depth - 1 ELSE depth
                 IN IF d = 0 /\ start # 0
                    THEN LET obj == JSONParseText(SubSeq(s, start, i))
                         IN ScanAll(s, i + 1, FALSE, FALSE, d, 0,
                                    IF IsPlainObject(obj) THEN Append(acc, obj.json)
                                    ELSE acc)
                    ELSE ScanAll(s, i + 1, FALSE, FALSE, d, start, acc)
            ELSE ScanAll(s, i + 1, FALSE, FALSE, depth, start, acc)

\* variant: the scan stops after the first object it pushed
extractFirstObjectOnly(s) ==
    LET all == ScanAll(s, 1, FALSE, FALSE, 0, 0, <<>>)
    IN IF all = <<>> THEN <<>> ELSE <<all[1]>>

extractAllBalancedObjects(s) == ScanAll(s, 1, FALSE, FALSE, 0, 0, <<>>)

\* what extractArray / extractObject return: null, or a value given by its
\* JSON text
NoValue == [ok |-> FALSE, json |-> <<>>]
\* the call did not return: an exception left it
Thrown == [ok |-> FALSE, json |-> <<"<TypeError>">>]
Value(j) == [ok |-> TRUE, json |-> j]

\* the JSON text of the array of the values with texts items[1], items[2], ..
RECURSIVE Joined(_)
Joined(items) ==
    IF items = <<>> THEN <<>>
    ELSE IF Len(items) = 1 THEN items[1]
    ELSE items[1] \o <<",">> \o Joined(Tail(items))

ArrayOf(items) == <<"[">> \o Joined(items) \o <<"]">>

\* variant: the loop keeps the last match instead of returning the first
FirstParsingLast(texts, kind) ==
    LET hits == {k \in 1..Len(texts) :
                    LET parsed == JSONParseText(texts[k])
                    IN IF kind = "array" THEN IsArray(parsed)
                       ELSE IsPlainObject(parsed)}
    IN IF hits = {} THEN 0 ELSE CHOOSE k \in hits : \A j \in hits : j <= k

\* for (const f of fences) over the texts handed to JSON.parse: the index
\* of the first text that parses to a value of the kind looked for, 0 if the
\* loop ends without a return
FirstParsing(texts, kind) ==
    LET hits == {k \in 1..Len(texts) :
                    LET parsed == JSONParseText(texts[k])
                    IN IF kind = "array" THEN IsArray(parsed)
                       ELSE IsPlainObject(parsed)}
    IN IF hits = {} THEN 0 ELSE CHOOSE k \in hits : \A j \in hits : k <= j

\* sliceToFirstJSON(f) of every fence f
Sliced(fences) == [k \in 1..Len(fences) |-> sliceToFirstJSON(fences[k])]

\* flatMap of extractAllBalancedObjects over the fences
RECURSIVE Recovered(_)
Recovered(fences) ==
    IF fences = <<>> THEN <<>>
    ELSE extractAllBalancedObjects(Head(fences)) \o Recovered(Tail(fences))

extractArray(t) ==
    LET fences == getAllJsonFences(t)
        d == FirstParsing(fences, "array")
        sl == FirstParsing(Sliced(fences), "array")
        rec == Recovered(fences)
    IN IF fences = TypeError THEN Thrown
       ELSE IF fences = <<>> THEN NoValue
       ELSE IF d # 0 THEN Value(JSONParseText(fences[d]).json)
       ELSE IF sl # 0 THEN Value(JSONParseText(sliceToFirstJSON(fences[sl])).json)
       ELSE IF rec # <<>> THEN Value(ArrayOf(rec))
       ELSE NoValue

extractObject(t) ==
    LET fences == getAllJsonFences(t)
        d == FirstParsing(fences, "object")
        sl == FirstParsing(Sliced(fences), "object")
    IN IF fences = TypeError THEN Thrown
       ELSE IF fences = <<>> THEN NoValue
       ELSE IF d # 0 THEN Value(JSONParseText(fences[d]).json)
       ELSE IF sl # 0 THEN Value(JSONParseText(sliceToFirstJSON(fences[sl])).json)
       ELSE NoValue

\* the resolver function fn applied to the section text
Apply(f, t) ==
    CASE f = "extractObject" -> extractObject(t)
      [] f = "extractArray" -> extractArray(t)
      [] f = "extractFirstBalanced" ->
            LET r == extractFirstBalanced(t, "{", "}")
            IN [ok |-> r.ok, json |-> r.text]
      [] f = "extractAllBalancedObjects" -> Value(ArrayOf(extractAllBalancedObjects(t)))
      [] f = "sliceToFirstJSON" -> Value(sliceToFirstJSON(t))

\* the component renders: the resolver runs on the section text
Resolve ==
    /\ fn # "none"
    /\ resolved = Null
    /\ resolved' = Apply(fn, txt)
    /\ UNCHANGED <<app, file, loading, result, job, nruns, pipelineVars,
                   pollingVars, storage, clearing, payloadVars, fn, parts, txt,
                   displayVars, chatVars>>

NextResolver == Resolve

\* ------------------------------------------------- section texts to resolve

Str(b) == <<Quote>> \o b \o <<Quote>>
Obj(k, v) == <<"{">> \o Str(k) \o <<":">> \o v \o <<"}">>
Arr(v) == <<"[">> \o v \o <<"]">>

\* string literals, some holding braces, brackets and an escaped quote
StringLiterals ==
    {Str(<<"a">>), Str(<<"}">>), Str(<<"[", "{">>), Str(<<Backslash, Quote>>)}

Atoms == {<<"1">>} \cup StringLiterals

\* well-formed values nested at most d deep
RECURSIVE Values(_)
Values(d) ==
    IF d = 0 THEN Atoms
    ELSE LET V == Values(d - 1)
         IN V \cup {Obj(<<"a">>, v) : v \in V} \cup {Arr(v) : v \in V}
              \cup {<<"{", "}">>, <<"[", "]">>}

\* well-formed objects: one field holding any value, or two fields
Objects ==
    {v \in Values(MaxDepth) : v[1] = "{"}
      \cup {<<"{">> \o Str(<<"}">>) \o <<":">> \o v \o <<",", " ">>
               \o Str(<<"b">>) \o <<":", "1", "}">> : v \in Atoms}

\* all sequences of at most n elements of S
SeqsUpTo(S, n) == UNION {[1..k -> S] : k \in 0..n}

RECURSIVE Flat(_)
Flat(ss) == IF ss = <<>> THEN <<>> ELSE Head(ss) \o Flat(Tail(ss))

RECURSIVE JoinWith(_, _)
JoinWith(ss, sep) ==
    IF ss = <<>> THEN <<>>
    ELSE IF Len(ss) = 1 THEN ss[1]
    ELSE ss[1] \o sep \o JoinWith(Tail(ss), sep)

\* a tagged fenced block around body
Fence(body) == <<FenceOpen, " ">> \o body \o <<" ", FenceMark>>

RECURSIVE FencesOnly(_)
FencesOnly(bodies) ==
    IF bodies = <<>> THEN <<>> ELSE Fence(Head(bodies)) \o FencesOnly(Tail(bodies))

\* text outside tagged fences: plain, bracketed, JSON-looking, unbalanced,
\* an untagged fence
NoiseUnits ==
    {<<"a">>, <<"[", "1", "]">>, Obj(<<"a">>, <<"1">>), <<"{">>, <<Quote>>,
     <<FenceMark>>}

\* what a fence may hold: an object, an array, an object inside commentary,
\* an unterminated array, plain words
FenceBodies ==
    { Obj(<<"a">>, <<"1">>),
      Arr(<<"1">>),
      <<"a", " ">> \o Obj(<<"a">>, Str(<<"}">>)) \o <<" ", "a">>,
      <<"[">> \o Obj(<<"a">>, <<"1">>),
      <<"a">> }

\* one or two fences with noise before, between and after them
FenceParts ==
    {[noise |-> u, i |-> i, j |-> j, bodies |-> bs] :
        u \in SeqsUpTo(NoiseUnits, MaxNoise),
        i \in 0..MaxNoise, j \in 0..MaxNoise,
        bs \in SeqsUpTo(FenceBodies, 2)}

FencePartsOk(p) == p.i <= p.j /\ p.j <= Len(p.noise) /\ p.bodies # <<>>

FenceText(p) ==
    Flat(SubSeq(p.noise, 1, p.i))
      \o Fence(p.bodies[1])
      \o Flat(SubSeq(p.noise, p.i + 1, p.j))
      \o FencesOnly(Tail(p.bodies))
      \o Flat(SubSeq(p.noise, p.j + 1, Len(p.noise)))

\* commentary without quotes and brackets
Leads == {<<>>, <<"a", ":", " ">>}
Trails == {<<" ", "a">>, <<"a", ",", " ", "1">>}

\* a fence holding commentary, one object, commentary
SliceText(p) == <<FenceOpen, " ">> \o p.lead \o p.obj \o p.trail \o <<" ", FenceMark>>

\* items of an array: well-formed objects, and balanced spans that do not
\* parse
BadItems == {<<"{", "a", "}">>, <<"{", Quote, "a", Quote, ":", "}">>}
RecoveryItems == {Obj(<<"a">>, v) : v \in Values(1)} \cup BadItems
Separators == {<<",">>, <<",", " ">>, <<" ">>, <<>>}

\* a fence holding an array of items, its commas or its closing bracket
\* possibly missing
RecoveryText(p) ==
    Fence(<<"[">> \o JoinWith(p.items, p.sep)
                  \o (IF p.closed THEN <<"]">> ELSE <<>>))

\* what follows the object
TailSyms == {"}", "{", Quote, "a"}

ScanText(p) == p.obj \o p.tail

\* a mounted component with nothing but the section text to resolve
InitResolver ==
    /\ app = "pipeline"
    /\ payload = Null
    /\ view = Null
    /\ resolved = Null
    /\ Mounted

InitFence ==
    /\ InitResolver
    /\ fn \in {"extractObject", "extractArray"}
    /\ parts \in {p \in FenceParts : FencePartsOk(p)}
    /\ txt = FenceText(parts)

InitSlice ==
    /\ InitResolver
    /\ fn = "extractObject"
    /\ parts \in [lead : Leads, obj : Objects, trail : Trails]
    /\ txt = SliceText(parts)

InitRecovery ==
    /\ InitResolver
    /\ fn = "extractArray"
    /\ parts \in [items : SeqsUpTo(RecoveryItems, MaxItems) \ {<<>>},
                  sep : Separators, closed : BOOLEAN]
    /\ txt = RecoveryText(parts)

InitScan ==
    /\ InitResolver
    /\ fn \in {"extractFirstBalanced", "extractAllBalancedObjects"}
    /\ parts \in [obj : Objects, tail : SeqsUpTo(TailSyms, MaxTail)]
    /\ txt = ScanText(parts)

\* an untagged fenced block around body
GenericFence(body) == <<FenceMark, " ">> \o body \o <<" ", FenceMark>>

\* a section without tagged fence whose one generic fence holds a
\* well-formed object or array
GenericText(p) == p.before \o GenericFence(p.generic)

InitGeneric ==
    /\ InitResolver
    /\ fn \in {"extractObject", "extractArray"}
    /\ parts \in [before : Leads,
                  generic : {v \in Values(MaxDepth) : v[1] \in {"{", "["}}]
    /\ txt = GenericText(parts)

\* what each of several fences may hold: objects and arrays that parse
\* directly, an object and an array inside commentary, plain words
OrderBodies ==
    { Obj(<<"a">>, <<"1">>),
      Obj(<<"a">>, Str(<<"a">>)),
      Arr(<<"1">>),
      Arr(Str(<<"a">>)),
      <<"a", " ">> \o Obj(<<"a">>, <<"{", "}">>) \o <<" ", "a">>,
      <<"a", " ">> \o Arr(<<"[", "]">>) \o <<" ", "a">>,
      <<"a">> }

InitOrder ==
    /\ InitResolver
    /\ fn \in {"extractObject", "extractArray"}
    /\ parts \in [blocks : SeqsUpTo(OrderBodies, MaxFences)
                              \ SeqsUpTo(OrderBodies, 1)]
    /\ txt = FencesOnly(parts.blocks)

SpecOrder == InitOrder /\ [][NextResolver]_vars
\* fence bodies holding nothing that parses
Unparseable ==
    {<<"a">>, <<"{", "a", "}">>, <<"[", "1", ",">>, <<Quote, "a">>,
     <<"{", Quote, "a", Quote, ":">>}

\* inputs without anything to resolve: undefined, a non-string, the empty
\* text, texts without tagged fence, fences holding nothing that parses
FailureTexts ==
    {NoText, NonString, <<>>}
      \cup {Flat(u) : u \in SeqsUpTo(NoiseUnits, MaxNoise)}
      \cup {Fence(b) : b \in Unparseable}

\* a fence holding one well-formed value of any kind
FencedValues == {Fence(v) : v \in Values(1)}

InitFailure ==
    /\ InitResolver
    /\ fn \in {"extractObject", "extractArray"}
    /\ parts \in [input : FailureTexts \cup FencedValues]
    /\ txt = parts.input

SpecFailure == InitFailure /\ [][NextResolver]_vars
\* a block holding one bracketed value, with or without commentary around
\* it; the slicer is handed the block, the resolver the fenced block
TopLevelText(f, p) ==
    IF f = "sliceToFirstJSON" THEN p.pre \o p.top \o p.post
    ELSE Fence(p.pre \o p.top \o p.post)

InitTopLevel ==
    /\ InitResolver
    /\ fn \in {"sliceToFirstJSON", "extractArray"}
    /\ parts \in [pre : Leads, post : {<<>>, <<" ", "a">>},
                  top : {v \in Values(MaxDepth) : v[1] \in {"{", "["}}]
    /\ txt = TopLevelText(fn, parts)

SpecTopLevel == InitTopLevel /\ [][NextResolver]_vars
\* a section cut off before the closing fence: the tagged opening fence,
\* then an array of well-formed objects, complete or itself cut off after
\* an item
TruncatedText(p) ==
    <<FenceOpen, " ">> \o <<"[">> \o JoinWith(p.cut, <<",">>)
        \o (IF p.complete THEN <<"]">> ELSE <<>>)

InitTruncated ==
    /\ InitResolver
    /\ fn = "extractArray"
    /\ parts \in [cut : SeqsUpTo(RecoveryItems \ BadItems, MaxItems) \ {<<>>},
                  complete : BOOLEAN]
    /\ txt = TruncatedText(parts)

SpecTruncated == InitTruncated /\ [][NextResolver]_vars
SpecGeneric == InitGeneric /\ [][NextResolver]_vars
SpecFence == InitFence /\ [][NextResolver]_vars
SpecSlice == InitSlice /\ [][NextResolver]_vars
SpecRecovery == InitRecovery /\ [][NextResolver]_vars
SpecScan == InitScan /\ [][NextResolver]_vars

\* ------------------------------------------------ ResultsDisplay rendering

\* the five resolved sections, the resolver each goes through, and the tab
\* its panel is on
Sections == {"purpose", "commercial", "legal_risks", "mitigations", "alert"}
ResolverOf(sec) ==
    IF sec \in {"purpose", "alert"} THEN "extractObject" ELSE "extractArray"
TabOf(sec) ==
    CASE sec = "purpose" -> "summary"
      [] sec = "commercial" -> "commercial"
      [] sec = "legal_risks" -> "risks"
      [] sec = "mitigations" -> "mitigations"
      [] sec = "alert" -> "assessment"
Tabs == {"summary", "commercial", "risks", "mitigations", "assessment"}

\* result?.<section> || ''
RawOf(r, sec) == IF r[sec] = NoText THEN <<>> ELSE r[sec]

\* one thing on the screen: the resolved value of a section, the
\* could-not-parse line, or a raw text, in a panel or in the debug card
Item(sec, where, kind, text) ==
    [section |-> sec, where |-> where, kind |-> kind, text |-> text]

\* purposeJson, commercialJson, risksJson, mitigationsJson and alertJson: the
\* five sections resolved at each render
Resolved(r) ==
    [sec \in Sections |->
        IF ResolverOf(sec) = "extractArray"
        THEN extractArray(RawOf(r, sec))
        ELSE extractObject(RawOf(r, sec))]

\* the panel of a section whose else branch shows the line only
PanelOf(v, sec) ==
    IF v[sec].ok THEN {Item(sec, "panel", "value", v[sec].json)}
    ELSE {Item(sec, "panel", "indicator", <<>>)}

\* the Contract Purpose panel: its else branch shows the line and purposeRaw
PurposePanel(v, r) ==
    IF v["purpose"].ok THEN {Item("purpose", "panel", "value", v["purpose"].json)}
    ELSE {Item("purpose", "panel", "indicator", <<>>),
          Item("purpose", "panel", "raw", RawOf(r, "purpose"))}

\* the Raw Outputs (debug) card
DebugCard(r) ==
    {Item(sec, "debug", "raw", RawOf(r, sec)) :
        sec \in {"legal_risks", "mitigations", "alert"}}

\* what is on the screen for the resolved sections v
Screen(tab, showRaw, r, v) ==
    (IF showRaw THEN DebugCard(r) ELSE {})
      \cup (IF tab = "summary"
            THEN PurposePanel(v, r)
                   \cup (IF RawOf(r, "plain") # <<>>
                         THEN {Item("plain", "panel", "raw", RawOf(r, "plain"))}
                         ELSE {})
            ELSE UNION {PanelOf(v, sec) : sec \in {x \in Sections : TabOf(x) = tab}})

\* the return of ResultsDisplay: the sections are resolved once, then the
\* elements are built from them
RenderResults(tab, showRaw, r) ==
    UNION {Screen(tab, showRaw, r, v) : v \in {Resolved(r)}}

\* a tab is clicked
setActiveTab(tab) ==
    /\ "purpose" \in DOMAIN parts
    /\ tab # activeTab
    /\ activeTab' = tab
    /\ view' = RenderResults(tab, showRawOutput, parts)
    /\ UNCHANGED <<app, file, loading, result, job, nruns, pipelineVars,
                   pollingVars, storage, clearing, payload, resolverVars,
                   showRawOutput, chatVars>>

\* Show Raw / Hide Raw is clicked
setShowRawOutput ==
    /\ "purpose" \in DOMAIN parts
    /\ showRawOutput' = ~showRawOutput
    /\ view' = RenderResults(activeTab, showRawOutput', parts)
    /\ UNCHANGED <<app, file, loading, result, job, nruns, pipelineVars,
                   pollingVars, storage, clearing, payload, resolverVars,
                   activeTab, chatVars>>

\* the raw text of a section: missing, without anything to resolve, or a
\* tagged fence holding a value of the section's shape
SectionTexts(sec) ==
    {NoText, <<"n", "o", " ", sec>>,
     Fence(IF ResolverOf(sec) = "extractArray"
           THEN Arr(Obj(<<"a">>, <<"1">>)) ELSE Obj(<<"a">>, <<"1">>))}

\* the result prop
ResultProps ==
    [purpose : SectionTexts("purpose"),
     commercial : SectionTexts("commercial"),
     legal_risks : SectionTexts("legal_risks"),
     mitigations : SectionTexts("mitigations"),
     alert : SectionTexts("alert"),
     plain : {<<"k">>}]

InitDisplay ==
    /\ app = "pipeline"
    /\ payload = Null
    /\ Mounted
    /\ fn = "none"
    /\ txt = <<>>
    /\ resolved = Null
    /\ parts \in ResultProps
    /\ view = RenderResults(activeTab, showRawOutput, parts)

NextDisplay ==
    \/ \E tab \in Tabs : setActiveTab(tab)
    \/ setShowRawOutput

SpecDisplay == InitDisplay /\ [][NextDisplay]_vars

\* ------------------------------------------------------------ ChatInterface

\* the handleSubmit invocations, each suspended in its await of onAsk or
\* finished
Asks == 1..MaxAsks

\* what may be typed into the question input
QuestionTexts == {<<"a">>, <<"b", " ">>, <<" ">>}

\* a ChatMessage; id stands for the questionId of the submission (Date.now()
\* at the time of the submit, taken to differ between submissions)
Message(id, type, content) == [id |-> id, type |-> type, content |-> content]

ErrorContent == <<"S", "o", "r", "r", "y">>
\* data.answer || 'No answer available'
AnswerContent(answer) == IF answer = <<>> THEN <<"N", "o">> ELSE answer

\* ChatInterface returns null unless it has a result
ChatShown == "purpose" \in DOMAIN parts

\* onChange of the question input (disabled while isLoading)
setQuestion(text) ==
    /\ ChatShown
    /\ ~loading
    /\ question' = text
    /\ UNCHANGED <<app, file, loading, result, job, nruns, pipelineVars,
                   pollingVars, storage, clearing, payloadVars, resolverVars,
                   displayVars, messages, asks>>

\* the form is submitted: handleSubmit up to `await onAsk(currentQuestion)`
handleSubmit ==
    /\ ChatShown
    /\ Trim(question) # <<>> /\ ~loading
    /\ Len(asks) < MaxAsks
    /\ messages' = Append(messages, Message(Len(asks) + 1, "question", Trim(question)))
    /\ question' = <<>>
    /\ asks' = Append(asks, [pc |-> "asking", q |-> question])
    /\ UNCHANGED <<app, file, loading, result, job, nruns, pipelineVars,
                   pollingVars, storage, clearing, payloadVars, resolverVars,
                   displayVars>>

\* onAsk settles: handleChatQuestion returned the answer, or threw (the
\* fetch failed or the response was not ok)
AskReturn(k, ok, answer) ==
    /\ ChatShown
    /\ k \in 1..Len(asks)
    /\ asks[k].pc = "asking"
    /\ messages' = Append(messages,
                          IF ok THEN Message(k, "answer", AnswerContent(answer))
                          ELSE Message(k, "answer", ErrorContent))
    /\ asks' = [asks EXCEPT ![k].pc = "settled"]
    /\ UNCHANGED <<app, file, loading, result, job, nruns, pipelineVars,
                   pollingVars, storage, clearing, payloadVars, resolverVars,
                   displayVars, question>>

\* Clear Chat, rendered while there are messages
clearChat ==
    /\ ChatShown
    /\ Len(messages) > 0
    /\ messages' = <<>>
    /\ question' = <<>>
    /\ UNCHANGED <<app, file, loading, result, job, nruns, pipelineVars,
                   pollingVars, storage, clearing, payloadVars, resolverVars,
                   displayVars, asks>>

InitChat ==
    /\ app = "pipeline"
    /\ payload = Null
    /\ view = Null
    /\ Mounted
    /\ fn = "none"
    /\ txt = <<>>
    /\ resolved = Null
    /\ parts \in {r \in ResultProps : \A sec \in Sections : r[sec] = NoText}

NextChat ==
    \/ \E text \in QuestionTexts : setQuestion(text)
    \/ handleSubmit
    \/ \E k \in Asks, ok \in BOOLEAN, answer \in {<<>>, <<"y">>} : AskReturn(k, ok, answer)
    \/ clearChat

SpecChat == InitChat /\ [][NextChat]_vars

(***************************************************************************)
(* Properties                                                              *)
(***************************************************************************)

TerminalStatuses == {"done", "error", "cancelled"}

\* the errors thrown when a stage call fails
StageFailures == {"Section failed", "Finalize failed", "No raw_report_url",
                  "raw.json fetch failed"}

\* the order in which the calls of one analysis are to be issued
StageOrder == <<"purpose", "commercial", "legal_risks", "mitigations", "alert",
                "finalize", "raw">>

IsPrefix(s, t) == Len(s) <= Len(t) /\ s = SubSeq(t, 1, Len(s))
NonDecreasing(s) == \A k \in 1..(Len(s) - 1) : s[k] <= s[k + 1]
Live(r) == r.pc \in {"upload", "section", "finalize", "raw"}
PartialsOf(j) == IF "partials" \in DOMAIN j THEN j.partials ELSE EmptyOutputs

\* this step creates the snapshot of a newly submitted job
JobCreated ==
    \/ \E p \in Runs : runs[p].pc = "upload" /\ runs'[p].pc # "upload"
    \/ \E p \in Uploads : pollers[p].pc = "start" /\ pollers'[p].pc # "start"

\* this step writes a snapshot / a result of job p
WritesJobOf(p) == job' # job /\ job' # Null /\ job'.id = p
WritesResultOf(p) == result' # result /\ result' # Null /\ result'.id = p

\* C1: once the job snapshot held by the client is terminal (done, error,
\* cancelled), no later event other than the creation of a newly submitted
\* job changes its status or step.
C1_TerminalAbsorption ==
    [][(job # Null /\ job.status \in TerminalStatuses /\ ~JobCreated)
          => (job' # Null /\ job'.status = job.status /\ job'.step = job.step)]_vars

\* C2: once cancel has been requested while a section call of an analysis is
\* in flight, that analysis issues no further call (no section, no finalize).
C2_CancelStopsPipeline ==
    \A p \in Runs :
        runs[p].cancelAt >= 0 => Len(runs[p].calls) = runs[p].cancelAt

\* C3: after an analysis has honoured a cancel (thrown 'Cancelled'), its job
\* is not shown as anything but cancelled: it has not been rewritten as a
\* running snapshot.
C3_CancelledJobNotRewritten ==
    \A p \in Runs :
        (runs[p].pc = "caught" /\ runs[p].err = "Cancelled")
            => (job = Null \/ job.id # p \/ job.status = "cancelled")

\* C4: after a stage call of an analysis has failed, the job of that analysis
\* has status error (it is not left running).
C4_StageFailureSetsError ==
    \A p \in Runs :
        (runs[p].pc = "caught" /\ runs[p].err \in StageFailures)
            => (job = Null \/ job.id # p \/ job.status = "error")

\* C5: a failed stage call ends the analysis: the failing step itself writes
\* neither job nor result and leaves no call in flight, and afterwards the
\* analysis issues no call and writes neither its job nor a result.
C5_FailedStageTerminates ==
    [][\A p \in Runs :
          /\ (runs[p].err \notin StageFailures /\ runs'[p].err \in StageFailures)
                => (runs'[p].pc = "caught" /\ job' = job /\ result' = result)
          /\ (runs[p].err \in StageFailures)
                => (runs'[p] = runs[p] /\ ~WritesJobOf(p) /\ ~WritesResultOf(p))
      ]_vars

C5_Witness ==
    \E p \in Runs : runs[p].pc = "caught" /\ runs[p].err = "Section failed"
                    /\ job # Null /\ job.id = p /\ job.step >= 2

\* C6: for one job the step values written to the snapshot never decrease and
\* the recorded stage outputs only grow (no key removed, no value replaced).
C6_Monotone ==
    [][/\ \A p \in Runs :
            (Live(runs[p]) /\ runs'[p].pc # "caught")
               => /\ IsPrefix(runs[p].written, runs'[p].written)
                  /\ NonDecreasing(runs'[p].written)
                  /\ \A l \in DOMAIN runs[p].outputs :
                        /\ l \in DOMAIN runs'[p].outputs
                        /\ runs'[p].outputs[l] = runs[p].outputs[l]
       /\ (job # Null /\ job' # Null /\ job'.id = job.id)
               => /\ job'.step >= job.step
                  /\ \A l \in DOMAIN PartialsOf(job) :
                        /\ l \in DOMAIN PartialsOf(job')
                        /\ PartialsOf(job')[l] = PartialsOf(job)[l]
      ]_vars

C6_Witness ==
    \E p \in Runs : /\ runs[p].pc = "done"
                    /\ Len(runs[p].written) = 7
                    /\ Cardinality(DOMAIN runs[p].outputs) = NumLabels

\* C7: in a first analysis in which every call succeeds and no cancel is
\* requested, the steps written are 0,1,2,3,4,5,6 with total 6, the job ends
\* done and the result holds the five analytic fields and a report handle.
C7_SuccessPath ==
    (app = "pipeline" /\ nruns = 1 /\ runs[1].pc = "done" /\ runs[1].fileId = 1
       /\ ~abortRef)
        => /\ runs[1].written = <<0, 1, 2, 3, 4, 5, 6>>
           /\ job = [id |-> 1, status |-> "done", step |-> 6, total |-> 6]
           /\ result # Null
           /\ result.id = 1
           /\ {"purpose", "commercial", "legal_risks", "mitigations", "alert",
               "raw_report_url"} \subseteq DOMAIN result
           /\ result.raw_report_url # Undefined

C7_Witness ==
    app = "pipeline" /\ nruns = 1 /\ runs[1].pc = "done" /\ runs[1].fileId = 1
       /\ ~abortRef

\* C8: the result bundle is populated only while the job snapshot held by
\* the client has status done.
C8_ResultOnlyWhenDone ==
    result # Null => (job # Null /\ job.status = "done")

\* C9: the calls of one analysis are issued in the fixed order purpose,
\* commercial, legal_risks, mitigations, alert, finalize (then the raw
\* fetch), each once, each only after all earlier ones returned
\* successfully.
C9_StageOrder ==
    \A p \in Runs :
        LET r == runs[p]
            returned == {StageOrder[k] : k \in 1..Min(Len(r.calls) - 1, NumLabels)}
        IN r.pc # "caught"
             => /\ IsPrefix(r.calls, StageOrder)
                /\ Len(r.calls) = CASE r.pc = "section" -> r.i + 1
                                    [] r.pc = "finalize" -> 6
                                    [] r.pc \in {"raw", "done"} -> 7
                                    [] OTHER -> 0
                /\ Live(r) /\ r.pc # "upload"
                      => DOMAIN r.outputs = returned

C9_Witness ==
    \E p \in Runs : runs[p].pc = "raw" /\ Len(runs[p].calls) = 7

\* C10: cancel never alters a terminal job or the result, and a second
\* cancel changes nothing the first did not change.
C10_RecancelNoOp ==
    [][/\ (app = "pipeline" /\ job # Null /\ job' = Null)
            => /\ job.status \notin TerminalStatuses
               /\ result' = result
               /\ CancelEffect(<<abortRef', loading', job'>>)
                     = <<abortRef', loading', job'>>
       /\ (app = "polling" /\ cancelFor' # cancelFor)
            => /\ job' = job
               /\ result' = result
               /\ (cancelFor # 0 /\ srv[cancelFor].status \notin {"pending", "running"})
                     => srv' = srv
               /\ cancelFor # 0
                     => /\ srv'[cancelFor] \in {srv[cancelFor], SrvCancel(srv[cancelFor])}
                        /\ SrvCancel(SrvCancel(srv[cancelFor])) = SrvCancel(srv[cancelFor])
      ]_vars

C10_Witness ==
    /\ app = "polling"
    /\ cancelFor # 0
    /\ srv[cancelFor].status = "done"
    /\ job # Null /\ job.id = cancelFor /\ job.status = "running"

\* C11: a status response whose status is terminal (done, error, cancelled)
\* ends the poll loop of that job: no further status request is scheduled,
\* whether or not a done response carries a result.
C11_PollingStopsAtTerminal ==
    [][\A p \in Uploads :
          (pollers[p].pc = "poll" /\ srv[p].status \in TerminalStatuses)
              => pollers'[p].pc # "timer"]_vars

\* C12: while the job is not terminal, a status request that settles (with a
\* response or with a failure) is followed by another status request on the
\* normal interval: the poll loop is not abandoned.
C12_PollFailureRetried ==
    [][\A p \in Uploads :
          (pollers[p].pc = "poll" /\ srv[p].status \notin TerminalStatuses
             /\ pollers'[p].pc # "poll")
              => pollers'[p].pc = "timer"]_vars

\* this step ends the submission of activation p in failure: the upload
\* response is not OK, or it carries no file id
UploadFailed(p) ==
    /\ runs[p].pc = "upload" /\ runs'[p].pc # "upload"
    /\ \/ runs'[p].err = "Upload failed"
       \/ runs'[p].fileId = NoId
       \/ (job' # Null /\ job'.id = NoId)

\* this step ends the submission of upload p of the polling client in failure
StartFailed(p) == pollers[p].pc = "start" /\ pollers'[p].end = "start failed"

\* C13: a failed submission (response not OK, or no job id in it) leaves the
\* job state as it was, issues no stage call and no status poll, and ends
\* the submission at once with the failure reported.
C13_SubmissionFailureCreatesNoJob ==
    [][/\ \A p \in Runs :
            UploadFailed(p) => /\ job' = job
                               /\ runs'[p].pc = "caught"
                               /\ runs'[p].calls = <<>>
       /\ \A p \in Uploads :
            StartFailed(p) => /\ job' = job
                              /\ pollers'[p].pc = "ended"
                              /\ loading' = FALSE
      ]_vars

\* a and b read the same under every property name (a property holding
\* undefined reads like a missing one)
PropsEqual(a, b) ==
    IF a = Null \/ b = Null THEN a = b
    ELSE /\ DOMAIN a \subseteq DOMAIN b
         /\ \A k \in DOMAIN b :
               IF k \in DOMAIN a THEN a[k] = b[k]
               ELSE k \in OptionalKeys /\ b[k] = Undefined

\* no upload, stage call, status request, timer or cancel / cleanup request
\* of this page is outstanding
NoRequest ==
    /\ \A p \in Runs : ~Live(runs[p])
    /\ \A p \in Uploads : pollers[p].pc \notin {"start", "poll", "timer"}
    /\ cancelFor = 0
    /\ ~clearing

IssuesStageCall(p) ==
    /\ Len(runs'[p].calls) > Len(runs[p].calls)
    /\ runs'[p].pc \in {"section", "finalize"}

\* C15: once clearAll has raised the abort flag, and until it ends, no
\* activation issues a further stage call.
C15_ClearStopsPipeline ==
    [][(clearing /\ abortRef) => \A p \in Runs : ~IssuesStageCall(p)]_vars

\* C16: the job snapshot satisfies 0 <= step <= total, and the step and the
\* progress shown for it lie within [0, total] and [0, 100], whatever the
\* status payload.
C16_StepBounds ==
    /\ job # Null => (0 <= job.step /\ job.step <= job.total)
    /\ view # Null => /\ 0 <= view.step /\ view.step <= view.total
                      /\ 0 <= view.width /\ view.width <= 100

\* the shape a resolver function returns
ExpectedShape(f, parsed) ==
    IF f = "extractArray" THEN IsArray(parsed) ELSE IsPlainObject(parsed)

\* C17: the resolved value of a text with tagged fences depends only on the
\* fenced text, not on what stands before, between or after the fences; a
\* single tagged fence holding a well-formed value of the expected shape
\* resolves to that value.
C17_FencePreference ==
    (resolved # Null /\ fn \in {"extractObject", "extractArray"}
        /\ "bodies" \in DOMAIN parts) =>
      /\ resolved = Apply(fn, FencesOnly(parts.bodies))
      /\ (Len(parts.bodies) = 1
            /\ ExpectedShape(fn, JSONParseText(parts.bodies[1]))) =>
           resolved = Value(Stringified(parts.bodies[1]))

\* a JSON-looking object before the fence and an unbalanced brace after it,
\* and the single fenced object was returned
C17_Witness ==
    /\ fn = "extractObject"
    /\ "bodies" \in DOMAIN parts
    /\ parts.bodies = <<Obj(<<"a">>, <<"1">>)>>
    /\ parts.noise = <<Obj(<<"a">>, <<"1">>), <<"{">>>>
    /\ parts.i = 1
    /\ parts.j = 1
    /\ resolved = Value(Obj(<<"a">>, <<"1">>))

\* C18: a fence holding commentary, one well-formed object and commentary
\* resolves to that object, whatever the object holds, nested arrays and
\* nested objects included.
C18_SliceFallback ==
    (resolved # Null /\ fn = "extractObject" /\ "lead" \in DOMAIN parts) =>
        resolved = Value(Stringified(parts.obj))

\* the items of parts.items that JSON.parse accepts, in order, as parsed
RECURSIVE WellFormedItems(_)
WellFormedItems(items) ==
    IF items = <<>> THEN <<>>
    ELSE (IF JSONParseText(Head(items)).ok
          THEN <<Stringified(Head(items))>> ELSE <<>>)
           \o WellFormedItems(Tail(items))

\* C19: a fenced array of objects, whether or not its commas and closing
\* bracket are there, resolves to the array of its well-formed objects in
\* their order; items that do not parse are skipped, and with no well-formed
\* item nothing is resolved.
C19_RecoveryMode ==
    (resolved # Null /\ fn = "extractArray" /\ "items" \in DOMAIN parts) =>
        resolved = (IF WellFormedItems(parts.items) = <<>> THEN NoValue
                    ELSE Value(ArrayOf(WellFormedItems(parts.items))))

\* an array without commas and closing bracket whose first item does not
\* parse: the second item alone was recovered
C19_Witness ==
    /\ fn = "extractArray"
    /\ "items" \in DOMAIN parts
    /\ parts.items = <<<<"{", "a", "}">>, Obj(<<"a">>, Arr(<<"1">>))>>
    /\ parts.sep = <<" ">>
    /\ ~parts.closed
    /\ resolved = Value(ArrayOf(<<Obj(<<"a">>, Arr(<<"1">>))>>))

\* C20: on a text that begins with a well-formed object whose strings hold
\* braces, brackets or escaped quotes, extractFirstBalanced returns exactly
\* that object and the first object extractAllBalancedObjects finds is that
\* object, whatever follows.
C20_StringAwareScanning ==
    (resolved # Null /\ "tail" \in DOMAIN parts) =>
      /\ fn = "extractFirstBalanced" => resolved = Value(parts.obj)
      /\ fn = "extractAllBalancedObjects" =>
            IsPrefix(<<"[">> \o Stringified(parts.obj), resolved.json)

\* an object whose string holds an escaped quote, followed by a closing
\* brace and a quote: the scanner returned the object alone
C20_Witness ==
    /\ fn = "extractFirstBalanced"
    /\ "tail" \in DOMAIN parts
    /\ parts.obj = Obj(<<"a">>, Str(<<Backslash, Quote>>))
    /\ parts.tail = <<"}", Quote>>
    /\ resolved = Value(parts.obj)

\* C21: a section with no tagged fence but with a generic fenced block
\* holding a well-formed value of the expected shape resolves to that value.
C21_GenericFenceFallback ==
    (resolved # Null /\ "generic" \in DOMAIN parts
        /\ ExpectedShape(fn, JSONParseText(parts.generic))) =>
      resolved = Value(Stringified(parts.generic))

\* the block parses directly to a value of the expected shape
ParsesDirectly(f, b) == ExpectedShape(f, JSONParseText(b))
\* the slice of the block parses to a value of the expected shape
ParsesSliced(f, b) == ExpectedShape(f, JSONParseText(sliceToFirstJSON(b)))

\* the value a block yields by direct parse or else by slicing
YieldOf(f, b) ==
    IF ParsesDirectly(f, b) THEN Value(Stringified(b))
    ELSE IF ParsesSliced(f, b) THEN Value(Stringified(sliceToFirstJSON(b)))
    ELSE NoValue

\* C22: of the fenced blocks that yield a value of the expected shape by
\* direct parse or by slicing, the earliest in document order gives the
\* resolved value.
C22_DocumentOrder ==
    (resolved # Null /\ "blocks" \in DOMAIN parts) =>
      \A k \in 1..Len(parts.blocks) :
         (YieldOf(fn, parts.blocks[k]).ok
            /\ \A j \in 1..(k - 1) : ~YieldOf(fn, parts.blocks[j]).ok) =>
           resolved = YieldOf(fn, parts.blocks[k])

\* C22 as amended: the earliest block that parses directly to the expected
\* shape gives the resolved value; when no block parses directly, the
\* earliest block whose slice parses to the expected shape gives it.
C22_TierOrder ==
    (resolved # Null /\ "blocks" \in DOMAIN parts) =>
      \A k \in 1..Len(parts.blocks) :
         /\ (ParsesDirectly(fn, parts.blocks[k])
               /\ \A j \in 1..(k - 1) : ~ParsesDirectly(fn, parts.blocks[j])) =>
              resolved = Value(Stringified(parts.blocks[k]))
         /\ ((\A j \in 1..Len(parts.blocks) : ~ParsesDirectly(fn, parts.blocks[j]))
               /\ ParsesSliced(fn, parts.blocks[k])
               /\ \A j \in 1..(k - 1) : ~ParsesSliced(fn, parts.blocks[j])) =>
              resolved = Value(Stringified(sliceToFirstJSON(parts.blocks[k])))

\* an object inside commentary, then two objects that parse directly: the
\* first of the two was returned
C22_Witness ==
    /\ fn = "extractObject"
    /\ "blocks" \in DOMAIN parts
    /\ parts.blocks = << <<"a", " ">> \o Obj(<<"a">>, <<"{", "}">>) \o <<" ", "a">>,
                         Obj(<<"a">>, <<"1">>),
                         Obj(<<"a">>, Str(<<"a">>)) >>
    /\ resolved = Value(Obj(<<"a">>, <<"1">>))

\* C23: on an input with nothing to resolve (undefined, empty, not a string,
\* no fenced block, fenced text with nothing parseable) extractArray and
\* extractObject return null and do not throw; extractArray returns nothing
\* but arrays and extractObject nothing but plain objects.
C23_FailureIsAValue ==
    (resolved # Null /\ "input" \in DOMAIN parts) =>
      /\ resolved # Thrown
      /\ parts.input \in FailureTexts => resolved = NoValue
      /\ resolved.ok =>
            KindOf(resolved.json[1]) =
               (IF fn = "extractArray" THEN "array" ELSE "object")

\* a txt that is not a string was resolved to null
C23_Witness ==
    /\ fn = "extractArray"
    /\ "input" \in DOMAIN parts
    /\ parts.input = NonString
    /\ resolved = NoValue

\* C24: for each of the five sections whose panel is on the screen, when
\* the resolver returned null the panel shows the could-not-parse line and
\* the raw text of the section verbatim, and a section that resolved shows
\* its value.
C24_RawTextFallback ==
    "purpose" \in DOMAIN parts =>
      \A sec \in Sections :
         TabOf(sec) = activeTab =>
           IF Resolved(parts)[sec].ok
           THEN \E it \in view : it.section = sec /\ it.kind = "value"
           ELSE /\ Item(sec, "panel", "indicator", <<>>) \in view
                /\ RawOf(parts, sec) # <<>> =>
                      Item(sec, "panel", "raw", RawOf(parts, sec)) \in view

\* the labels of the stage calls of an activation that have returned: all it
\* issued but the one in flight
ReturnedStages(r) ==
    {r.calls[k] : k \in 1..(Len(r.calls) - 1)} \cap {labels[k] : k \in 1..NumLabels}

\* C25: the recorded stage outputs hold an entry for exactly the stages
\* whose call returned successfully, which are the first stages in stage
\* order; while a stage call of the job shown is in flight job.step is the
\* number of entries; and a cancel neither preempts the call in flight nor
\* changes the entries.
C25_NoPartialEntries ==
    /\ [](\A p \in Runs :
            /\ Live(runs[p]) /\ runs[p].pc # "upload" =>
                  /\ DOMAIN runs[p].outputs = ReturnedStages(runs[p])
                  /\ DOMAIN runs[p].outputs = {labels[k] : k \in 1..runs[p].i}
            /\ (runs[p].pc = "section" /\ job # Null /\ job.id = runs[p].fileId) =>
                  job.step = Cardinality(DOMAIN runs[p].outputs))
    /\ [][handleCancelJob =>
            \A p \in Runs : /\ runs'[p].pc = runs[p].pc
                             /\ runs'[p].outputs = runs[p].outputs
                             /\ runs'[p].calls = runs[p].calls]_vars

\* cancel arrived while the third stage call was in flight: the call is
\* still in flight and the two entries are still there
C25_Witness ==
    \E p \in Runs :
        /\ runs[p].pc = "section"
        /\ runs[p].cancelAt >= 0
        /\ DOMAIN runs[p].outputs = {"purpose", "commercial"}
        /\ job = Null

\* the arrays nested inside the bracketed value v
NestedArrays(v) ==
    {SubSeq(v, i, j) : i \in 2..Len(v), j \in 2..(Len(v) - 1)}
      \cap {w \in {SubSeq(v, i, j) : i \in 2..Len(v), j \in 2..(Len(v) - 1)} :
               IsArray(JSONParseText(w))}

\* C26: the span the slice step chooses in a block holding one bracketed
\* value is that top-level value, never a value nested inside it; in
\* particular extractArray does not return an array that is only nested
\* inside the object of the block.
C26_TopLevelSlicing ==
    (resolved # Null /\ "top" \in DOMAIN parts) =>
      /\ fn = "sliceToFirstJSON" => resolved = Value(parts.top)
      /\ (fn = "extractArray" /\ resolved.ok) =>
            resolved.json \notin NestedArrays(parts.top)

\* C27: a section that opens a tagged fence followed by well-formed objects
\* or a complete array, cut off before the closing fence, still resolves to
\* those values.
C27_TruncatedRecoverable ==
    (resolved # Null /\ "cut" \in DOMAIN parts) =>
        resolved = Value(ArrayOf(WellFormedItems(parts.cut)))

\* C28: an analysis cancelled while one of its stage calls was in flight
\* issues no further stage call and writes neither the job nor the result
\* again, also when a new analysis is started before that call returns.
C28_CancelThenRestart ==
    [][\A p \in Runs :
          runs[p].cancelAt >= 0 =>
             /\ ~IssuesStageCall(p)
             /\ ~WritesJobOf(runs[p].fileId)
             /\ ~WritesResultOf(runs[p].fileId)]_vars

\* the poll loop of submission p is active: a status fetch is in flight or
\* the next one is scheduled
Polling(p) == pollers[p].pc \in {"poll", "timer"}

\* C29: in the polling client loading stays true while a poll loop is
\* scheduled, at most one poll loop is active at a time, and the job
\* snapshot is written only by the poller of the most recently started job.
C29_SinglePoller ==
    /\ []((\E p \in Uploads : Polling(p)) => loading)
    /\ [](Cardinality({p \in Uploads : Polling(p)}) <= 1)
    /\ [][\A p \in Uploads : (Polling(p) /\ WritesJobOf(p)) => p = nruns]_vars

\* the answer-or-error messages to submission k in a message list
AnswersTo(msgs, k) == {i \in 1..Len(msgs) : msgs[i].type = "answer" /\ msgs[i].id = k}

\* C30: every answer or error message in the list is preceded by the
\* question it answers, and when onAsk settles the question gets exactly
\* one answer-or-error message, also when the chat is cleared or further
\* questions are submitted while onAsk is pending.
C30_ChatPairing ==
    /\ [](\A i \in 1..Len(messages) :
            messages[i].type = "answer" =>
               \E j \in 1..(i - 1) : /\ messages[j].type = "question"
                                     /\ messages[j].id = messages[i].id)
    /\ [][\A k \in 1..Len(asks) :
            (asks[k].pc = "asking" /\ asks'[k].pc = "settled") =>
               Cardinality(AnswersTo(messages', k)) = 1]_vars

====
